---- MODULE Spec2Model ----
(***************************************************************************)
(* RUNK (Ring Universal Number Kounter): the generic range registry        *)
(* (MinNum/MaxNum), the saturating conversion engine (ConvertNumberBy and  *)
(* its leaf converters, for built-in and for defined types), ConvertNum,   *)
(* the reduction operators (Max/Min/Abs) and the one-argument function     *)
(* adapters of src/RUNK.go, first package (lines 1-1106).                  *)
(* Spec is one caller making one call at a time; ConcSpec is several       *)
(* goroutines inside ConvertNumberBy at once, statement by statement.      *)
(*                                                                         *)
(* NUMBERS.  Go's 64-bit integers and IEEE floats do not fit the model     *)
(* checker's integers, so a number is kept exactly as a point of a sampled *)
(* number line:                                                            *)
(*      [a |-> anchor, b |-> 0, h |-> halves, nan |-> FALSE]               *)
(* denotes   sign(a) * Magnitude(|a|) + h/2 ,    Magnitude(0) = 0,         *)
(* where the anchors are the magnitudes 2^7 < 2^8 < 2^15 < 2^16 < 2^24 <   *)
(* 2^31 < 2^32 < 2^53 < 2^63 < 2^64 < MaxFloat32 < the float64 next above  *)
(* MaxFloat32 < 1e300 < MaxFloat64 < +Inf and |h| stays far below the gap  *)
(* between two anchors (|h| < 2^7).  A point with b > 0 denotes            *)
(* Magnitude(a) - Magnitude(b) + h/2: the two's complement of a negative   *)
(* number in a wider unsigned type.  Order, negation, rounding to an       *)
(* integer, rounding to a 24/53-bit mantissa and two's-complement          *)
(* wraparound are all exact on such points.                                *)
(***************************************************************************)
EXTENDS Integers, Sequences, FiniteSets, TLC

\* ------------------------------------------------------------------ bounds
\* largest |h| (in halves) of a sampled input around an anchor: 5 = 2.5
MaxOff == 5
\* longest argument list handed to Max / Min
MaxLen == 3
\* goroutines calling ConvertNumberBy at once
NThreads == 2

\* ------------------------------------------------------- the number line
Exps == <<7, 8, 15, 16, 24, 31, 32, 53, 63, 64>>
\* "MaxFloat32Next" is math.Nextafter(MaxFloat32, +Inf) of float64: still
\* nearer to MaxFloat32 than to 2^128
FloatMarks == <<"MaxFloat32", "MaxFloat32Next", "1e300", "MaxFloat64", "Inf">>

NExp == Len(Exps)
Rank(e) == CHOOSE i \in 1..NExp : Exps[i] = e
Mark(name) == NExp + (CHOOSE i \in 1..Len(FloatMarks) : FloatMarks[i] = name)
RInf == Mark("Inf")

Num(a, h) == [a |-> a, b |-> 0, h |-> h, nan |-> FALSE]
Zero == Num(0, 0)
Pow2(e) == Num(Rank(e), 0)
qNaN == [a |-> 0, b |-> 0, h |-> 0, nan |-> TRUE]
PosInf == Num(RInf, 0)
NegInf == Num(-RInf, 0)
Huge == Num(Mark("1e300"), 0)

AbsInt(n) == IF n < 0 THEN -n ELSE n
Sign(x) == IF x.a > 0 \/ (x.a = 0 /\ x.h > 0) THEN 1
           ELSE IF x.a < 0 \/ (x.a = 0 /\ x.h < 0) THEN -1 ELSE 0

\* Go's unary minus on a float, and the mathematical negation of an integer
Neg(x) == IF x.nan THEN x ELSE Num(-x.a, -x.h)
\* x + n for a small integer n
Plus(x, n) == [x EXCEPT !.h = @ + 2 * n]

\* Go comparisons: every comparison with NaN is false
Lt(x, y) == /\ ~x.nan /\ ~y.nan
            /\ \/ x.a < y.a
               \/ x.a = y.a /\ x.b > y.b
               \/ x.a = y.a /\ x.b = y.b /\ x.h < y.h
Gt(x, y) == Lt(y, x)
Eq(x, y) == ~x.nan /\ ~y.nan /\ x.a = y.a /\ x.b = y.b /\ x.h = y.h
Leq(x, y) == Lt(x, y) \/ Eq(x, y)

\* math.IsNaN, math.IsInf
IsNaN(x) == x.nan
IsInf(x, sign) == /\ ~x.nan
                  /\ \/ (sign >= 0 /\ x.a = RInf)
                     \/ (sign <= 0 /\ x.a = -RInf)
IsFinite(x) == ~x.nan /\ AbsInt(x.a) < RInf
IsInteger(x) == IsFinite(x) /\ x.h % 2 = 0
IsPowAnchor(x) == AbsInt(x.a) >= 1 /\ AbsInt(x.a) <= NExp
ExpOf(x) == Exps[AbsInt(x.a)]

\* ------------------------------------------------------------- the Kinds
SintKinds == {"int", "int8", "int16", "int32", "int64"}
UintKinds == {"uint", "uint8", "uint16", "uint32", "uint64", "uintptr"}
FloatKinds == {"float32", "float64"}
IntKinds == SintKinds \cup UintKinds
Kinds == IntKinds \cup FloatKinds

\* defined types over the built-in ones (type MyInt8 int8, ...), which the
\* constraints admit through ~int8, ...
NamedKinds == {"MyInt", "MyInt8", "MyInt16", "MyInt32", "MyInt64",
               "MyUint", "MyUint8", "MyUint16", "MyUint32", "MyUint64",
               "MyUintptr", "MyFloat32", "MyFloat64"}
Types == Kinds \cup NamedKinds

\* reflect.ValueOf(x).Kind(): the built-in type underneath
KindTable ==
  [T \in NamedKinds |->
     CASE T = "MyInt" -> "int"
       [] T = "MyInt8" -> "int8"
       [] T = "MyInt16" -> "int16"
       [] T = "MyInt32" -> "int32"
       [] T = "MyInt64" -> "int64"
       [] T = "MyUint" -> "uint"
       [] T = "MyUint8" -> "uint8"
       [] T = "MyUint16" -> "uint16"
       [] T = "MyUint32" -> "uint32"
       [] T = "MyUint64" -> "uint64"
       [] T = "MyUintptr" -> "uintptr"
       [] T = "MyFloat32" -> "float32"
       [] T = "MyFloat64" -> "float64"]
Kind(T) == IF T \in NamedKinds THEN KindTable[T] ELSE T

\* strconv.IntSize of a 64-bit build
IntSize == 64


Width(kind) ==
  CASE kind \in {"int", "uint", "uintptr"} -> IntSize
    [] kind \in {"int8", "uint8"} -> 8
    [] kind \in {"int16", "uint16"} -> 16
    [] kind \in {"int32", "uint32", "float32"} -> 32
    [] kind \in {"int64", "uint64", "float64"} -> 64

\* significand precision of the IEEE formats behind float32 / float64
Mant(kind) == IF kind = "float32" THEN 24 ELSE 53

\* ------------------------------------------- native (unchecked) Go casts
\* nearest multiple of u to t >= 0, ties to the even multiple
NearestEven(t, u) ==
  LET k == t \div u
      rem == t % u
  IN  IF 2 * rem < u THEN k * u
      ELSE IF 2 * rem > u THEN (k + 1) * u
      ELSE IF k % 2 = 0 THEN k * u ELSE (k + 1) * u

\* unit in the last place, in halves, just above / just below 2^e for a
\* mantissa of mant bits; anything from 2^10 halves up is "far larger than
\* every sampled offset"
UlpHalves(e, mant, above) ==
  LET k == e - mant + (IF above THEN 2 ELSE 1)
  IN  IF k <= 0 THEN 1 ELSE IF k >= 10 THEN 1024 ELSE 2 ^ k

\* float32(x) / float64(x): round to nearest, ties to even; overflow to Inf
RoundToFloat(kind, x) ==
  IF x.nan \/ AbsInt(x.a) = RInf \/ x.a = 0 THEN x
  ELSE IF IsPowAnchor(x)
  THEN LET m == IF x.a > 0 THEN x.h ELSE -x.h
           u == UlpHalves(ExpOf(x), Mant(kind), m >= 0)
           t == NearestEven(AbsInt(m), u)
           mm == IF m >= 0 THEN t ELSE -t
       IN  Num(x.a, IF x.a > 0 THEN mm ELSE -mm)
  ELSE IF kind = "float32" /\ AbsInt(x.a) = Mark("MaxFloat32Next")
  THEN Num(IF x.a > 0 THEN Mark("MaxFloat32") ELSE -Mark("MaxFloat32"), 0)
  ELSE IF kind = "float32" /\ AbsInt(x.a) > Mark("MaxFloat32Next")
  THEN Num(IF x.a > 0 THEN RInf ELSE -RInf, 0)
  ELSE x

\* math.Trunc / math.Floor / math.Ceil / math.Round / math.RoundToEven
\* (a point with an odd h lies exactly half way between two integers)
Trunc(x) == IF x.nan \/ x.h % 2 = 0 THEN x
            ELSE [x EXCEPT !.h = IF Sign(x) > 0 THEN @ - 1 ELSE @ + 1]
Floor(x) == IF x.nan \/ x.h % 2 = 0 THEN x ELSE [x EXCEPT !.h = @ - 1]
Ceil(x) == IF x.nan \/ x.h % 2 = 0 THEN x ELSE [x EXCEPT !.h = @ + 1]
Round(x) == IF x.nan \/ x.h % 2 = 0 THEN x
            ELSE [x EXCEPT !.h = IF Sign(x) > 0 THEN @ + 1 ELSE @ - 1]
RoundToEven(x) == IF x.nan \/ x.h % 2 = 0 THEN x
                  ELSE [x EXCEPT !.h = IF (@ + 1) % 4 = 0 THEN @ + 1 ELSE @ - 1]

\* rounding policies a caller can hand to ConvertNumberBy: the five of the
\* math package and four arbitrary func(float64) float64, one of which
\* panics when called
MathModes == {"Round", "Floor", "Ceil", "Trunc", "RoundToEven"}
OddModes == {"Negate", "Huge", "ToNaN", "Panic"}
Modes == MathModes \cup OddModes

\* a panic unwinding through the callers, carried where the value of the
\* call would be
Panic == [a |-> 0, b |-> 1, h |-> 0, nan |-> TRUE]

Apply(mode, x) ==
  CASE mode = "Round" -> Round(x)
    [] mode = "Floor" -> Floor(x)
    [] mode = "Ceil" -> Ceil(x)
    [] mode = "Trunc" -> Trunc(x)
    [] mode = "RoundToEven" -> RoundToEven(x)
    [] mode = "Negate" -> Neg(x)
    [] mode = "Huge" -> Huge
    [] mode = "ToNaN" -> qNaN
    [] mode = "Panic" -> Panic

\* ---------------------------------------------------- constants (55-86)
MaxInt == Plus(Pow2(IntSize - 1), -1)
MinInt == Neg(Pow2(IntSize - 1))
MaxInt8 == Plus(Pow2(7), -1)
MinInt8 == Neg(Pow2(7))
MaxInt16 == Plus(Pow2(15), -1)
MinInt16 == Neg(Pow2(15))
MaxInt32 == Plus(Pow2(31), -1)
MinInt32 == Neg(Pow2(31))
MaxInt64 == Plus(Pow2(63), -1)
MinInt64 == Neg(Pow2(63))
MaxUint == Plus(Pow2(IntSize), -1)
MaxUint8 == Plus(Pow2(8), -1)
MaxUint16 == Plus(Pow2(16), -1)
MaxUint32 == Plus(Pow2(32), -1)
MaxUint64 == Plus(Pow2(64), -1)
MaxUintptr == MaxUint
MaxFloat32 == Num(Mark("MaxFloat32"), 0)
MinFloat32 == Neg(MaxFloat32)
MaxFloat64 == Num(Mark("MaxFloat64"), 0)
MinFloat64 == Neg(MaxFloat64)

\* ToNumber: the built-in conversion To(n) of a constant that already has
\* the type To
ToNumber(n) == n

\* slip: the int8 minimum written as -MaxInt8
MinNumSymmetric(Num_) == IF Num_ = "int8" THEN Neg(MaxInt8) ELSE
  CASE Num_ = "int" -> ToNumber(MinInt)
    [] Num_ = "int16" -> ToNumber(MinInt16)
    [] Num_ = "int32" -> ToNumber(MinInt32)
    [] Num_ = "int64" -> ToNumber(MinInt64)
    [] Num_ \in UintKinds -> ToNumber(Zero)
    [] Num_ = "float32" -> ToNumber(MinFloat32)
    [] Num_ = "float64" -> ToNumber(MinFloat64)

MinNum(Num_) ==
  CASE Num_ = "int" -> ToNumber(MinInt)
    [] Num_ = "int8" -> ToNumber(MinInt8)
    [] Num_ = "int16" -> ToNumber(MinInt16)
    [] Num_ = "int32" -> ToNumber(MinInt32)
    [] Num_ = "int64" -> ToNumber(MinInt64)
    [] Num_ \in UintKinds -> ToNumber(Zero)
    [] Num_ = "float32" -> ToNumber(MinFloat32)
    [] Num_ = "float64" -> ToNumber(MinFloat64)

\* slip: the int16 case returns the constant of the case above it
MaxNumCopyPaste(Num_) ==
  CASE Num_ = "int" -> ToNumber(MaxInt)
    [] Num_ = "int8" -> ToNumber(MaxInt8)
    [] Num_ = "int16" -> ToNumber(MaxInt8)
    [] Num_ = "int32" -> ToNumber(MaxInt32)
    [] Num_ = "int64" -> ToNumber(MaxInt64)
    [] Num_ = "uint" -> ToNumber(MaxUint)
    [] Num_ = "uint8" -> ToNumber(MaxUint8)
    [] Num_ = "uint16" -> ToNumber(MaxUint16)
    [] Num_ = "uint32" -> ToNumber(MaxUint32)
    [] Num_ = "uint64" -> ToNumber(MaxUint64)
    [] Num_ = "uintptr" -> ToNumber(MaxUintptr)
    [] Num_ = "float32" -> ToNumber(MaxFloat32)
    [] Num_ = "float64" -> ToNumber(MaxFloat64)

MaxNum(Num_) ==
  CASE Num_ = "int" -> ToNumber(MaxInt)
    [] Num_ = "int8" -> ToNumber(MaxInt8)
    [] Num_ = "int16" -> ToNumber(MaxInt16)
    [] Num_ = "int32" -> ToNumber(MaxInt32)
    [] Num_ = "int64" -> ToNumber(MaxInt64)
    [] Num_ = "uint" -> ToNumber(MaxUint)
    [] Num_ = "uint8" -> ToNumber(MaxUint8)
    [] Num_ = "uint16" -> ToNumber(MaxUint16)
    [] Num_ = "uint32" -> ToNumber(MaxUint32)
    [] Num_ = "uint64" -> ToNumber(MaxUint64)
    [] Num_ = "uintptr" -> ToNumber(MaxUintptr)
    [] Num_ = "float32" -> ToNumber(MaxFloat32)
    [] Num_ = "float64" -> ToNumber(MaxFloat64)


\* ------------------------------------------ Go's built-in conversion T(x)
\* the value range of an integer type as the language defines it
KindMin(kind) == IF kind \in SintKinds THEN Neg(Pow2(Width(kind) - 1)) ELSE Zero
KindMax(kind) == IF kind \in SintKinds THEN Plus(Pow2(Width(kind) - 1), -1)
                 ELSE Plus(Pow2(Width(kind)), -1)
InKind(kind, x) == Leq(KindMin(kind), x) /\ Leq(x, KindMax(kind))

\* integer -> integer: two's-complement truncation to Width(kind) bits
\* (-2^e + n for e < Width - 1 into an unsigned kind is 2^w - 2^e + n)
Wrap(kind, x) ==
  IF InKind(kind, x) THEN x
  ELSE IF x.a = 0 THEN Num(Rank(Width(kind)), x.h)
  ELSE IF ExpOf(x) >= Width(kind)
  THEN (IF kind \in SintKinds \/ x.h >= 0 THEN Num(0, x.h)
        ELSE Num(Rank(Width(kind)), x.h))
  ELSE IF ExpOf(x) = Width(kind) - 1 THEN Num(-x.a, x.h)
  ELSE [a |-> Rank(Width(kind)), b |-> -x.a, h |-> x.h, nan |-> FALSE]

\* float -> integer: the fraction is discarded when the truncated value
\* fits; otherwise the result is implementation-dependent (Go spec), which
\* is a choice impl among what builds produce
Impls == {"min", "zero", "max"}
\* the builds worth telling apart for a source of a Kind: only a floating
\* source is ever cast by a conversion whose result depends on the build
ImplsFor(kind) == IF kind \in FloatKinds THEN Impls ELSE {"zero"}
ImplDefined(kind, impl) ==
  CASE impl = "min" -> KindMin(kind)
    [] impl = "zero" -> Zero
    [] impl = "max" -> KindMax(kind)
FloatToIntNative(kind, x, impl) ==
  IF IsFinite(x) /\ InKind(kind, Trunc(x)) THEN Trunc(x)
  ELSE ImplDefined(kind, impl)

\* To(x) for x of type From: a conversion looks at the underlying types only
Conv(To, From, x, impl) ==
  IF Kind(To) \in FloatKinds THEN RoundToFloat(Kind(To), x)
  ELSE IF Kind(From) \in FloatKinds THEN FloatToIntNative(Kind(To), x, impl)
  ELSE Wrap(Kind(To), x)

\* `return To(f(...))`: nothing is converted when the call f panicked
Ret(To, From, x, impl) == IF x = Panic THEN Panic ELSE Conv(To, From, x, impl)

\* --------------------------------------------------- leaf converters
\* slip: the upper bound is not tested
sintToSintNoMax(To, From, from, impl) ==
  LET sint == Conv("int64", From, from, impl)
      min == MinNum(To)
  IN  IF Lt(sint, Conv("int64", To, min, impl)) THEN min
      ELSE Conv(To, From, from, impl)

\* slip: the value in range is returned negated
sintToSintNegated(To, From, from, impl) ==
  LET max == MaxNum(To)
      sint == Conv("int64", From, from, impl)
  IN  IF Gt(sint, Conv("int64", To, max, impl)) THEN max
      ELSE LET min == MinNum(To)
           IN  IF Lt(sint, Conv("int64", To, min, impl)) THEN min
               ELSE Conv(To, From, Neg(from), impl)

sintToSint(To, From, from, impl) ==
  LET max == MaxNum(To)
      sint == Conv("int64", From, from, impl)
  IN  IF Gt(sint, Conv("int64", To, max, impl)) THEN max
      ELSE LET min == MinNum(To)
           IN  IF Lt(sint, Conv("int64", To, min, impl)) THEN min
               ELSE Conv(To, From, from, impl)

sintToUint(To, From, from, impl) ==
  IF Lt(from, Zero) THEN Conv(To, "int", Zero, impl)
  ELSE LET max == MaxNum(To)
       IN  IF Gt(Conv("uint64", From, from, impl), Conv("uint64", To, max, impl))
           THEN max
           ELSE Conv(To, From, from, impl)

sintToFloat(To, From, from, impl) == Conv(To, From, from, impl)

uintToSint(To, From, from, impl) ==
  LET max == MaxNum(To)
  IN  IF Gt(Conv("uint64", From, from, impl), Conv("uint64", To, max, impl))
      THEN max
      ELSE Conv(To, From, from, impl)

\* slip: the comparison is made on signed 64-bit values
uintToUintSigned(To, From, from, impl) ==
  LET max == MaxNum(To)
  IN  IF Gt(Conv("int64", From, from, impl), Conv("int64", To, max, impl))
      THEN max
      ELSE Conv(To, From, from, impl)

uintToUint(To, From, from, impl) ==
  LET max == MaxNum(To)
  IN  IF Gt(Conv("uint64", From, from, impl), Conv("uint64", To, max, impl))
      THEN max
      ELSE Conv(To, From, from, impl)

uintToFloat(To, From, from, impl) == Conv(To, From, from, impl)

\* fl := float64(from); r := roundMode(fl); then the tests in the order of
\* the source (the locals are the parameters of the nested operators)
floatToSint(To, From, from, roundMode, impl) ==
  LET tests(fl, r, max, min) ==
        IF r = Panic THEN Panic
        ELSE IF IsNaN(fl) THEN Conv(To, "int", Zero, impl)
        ELSE LET over(flmax) == IsInf(fl, 1) \/ Gt(fl, flmax) \/ Gt(r, flmax)
                 under(flmin) == IsInf(fl, -1) \/ Lt(fl, flmin) \/ Lt(r, flmin)
             IN  IF over(Conv("float64", To, max, impl)) THEN max
                 ELSE IF under(Conv("float64", To, min, impl)) THEN min
                 ELSE Conv(To, "float64", r, impl)
      rounded(fl) == tests(fl, Apply(roundMode, fl), MaxNum(To), MinNum(To))
  IN  rounded(Conv("float64", From, from, impl))

\* slip: the NaN test is made on the rounded value
floatToUintNaNOfRounded(To, From, from, roundMode, impl) ==
  LET tests(fl, r, max) ==
        IF r = Panic THEN Panic
        ELSE IF IsNaN(r) \/ IsInf(fl, -1) \/ Lt(fl, Zero) \/ Lt(r, Zero)
        THEN Conv(To, "int", Zero, impl)
        ELSE LET over(flmax) == IsInf(fl, 1) \/ Gt(fl, flmax) \/ Gt(r, flmax)
             IN  IF over(Conv("float64", To, max, impl)) THEN max
                 ELSE Conv(To, From, from, impl)
      rounded(fl) == tests(fl, Apply(roundMode, fl), MaxNum(To))
  IN  rounded(Conv("float64", From, from, impl))

floatToUint(To, From, from, roundMode, impl) ==
  LET tests(fl, r, max) ==
        IF r = Panic THEN Panic
        ELSE IF IsNaN(fl) \/ IsInf(fl, -1) \/ Lt(fl, Zero) \/ Lt(r, Zero)
        THEN Conv(To, "int", Zero, impl)
        ELSE LET over(flmax) == IsInf(fl, 1) \/ Gt(fl, flmax) \/ Gt(r, flmax)
             IN  IF over(Conv("float64", To, max, impl)) THEN max
                 ELSE Conv(To, From, from, impl)
      rounded(fl) == tests(fl, Apply(roundMode, fl), MaxNum(To))
  IN  rounded(Conv("float64", From, from, impl))

\* slip: the narrowing clamps to the finite range of the target
floatToFloatClamp(To, From, from, impl) ==
  IF Gt(from, MaxNum(To)) THEN MaxNum(To)
  ELSE IF Lt(from, MinNum(To)) THEN MinNum(To)
  ELSE Conv(To, From, from, impl)

floatToFloat(To, From, from, impl) == Conv(To, From, from, impl)


\* ------------------------------------------------ the type-switch chain
\* Every dispatcher first switches on the built-in types and calls the next
\* function instantiated at To; for a defined type it falls to a switch on
\* reflect's Kind that calls the same function instantiated at the built-in
\* type underneath and converts the result with To(...).  Both switches are
\* written here as one call at kind = Kind(To) (To itself when built-in).
\* What no case takes reaches the trailing unchecked `return To(from)`.
\* The inner switch of every unsigned reflect branch has these case labels,
\* as written (the one for 16 bits reads reflect.Int16):
UintCases == {"uint", "uint8", "int16", "uint32", "uint64", "uintptr"}

\* whether a switch of the shape above takes the integer type To
TakesInt(To) ==
  \/ To \in IntKinds
  \/ To \in NamedKinds /\ Kind(To) \in SintKinds
  \/ To \in NamedKinds /\ Kind(To) \in UintKinds /\ Kind(To) \in UintCases

\* a value of a defined type as the reflect branches pass it on:
\* float64(from), int64(from), uint64(from)
WideKind(From) ==
  IF From \in Kinds THEN From
  ELSE IF Kind(From) \in FloatKinds THEN "float64"
  ELSE IF Kind(From) \in SintKinds THEN "int64" ELSE "uint64"
Wide(From, from, impl) ==
  IF From \in Kinds THEN from ELSE Conv(WideKind(From), From, from, impl)

sintToInt(To, From, from, impl) ==
  IF TakesInt(To) /\ Kind(To) \in SintKinds
  THEN Ret(To, Kind(To), sintToSint(Kind(To), From, from, impl), impl)
  ELSE IF TakesInt(To)
  THEN Ret(To, Kind(To), sintToUint(Kind(To), From, from, impl), impl)
  ELSE Conv(To, From, from, impl)

fromSint(To, From, from, impl) ==
  IF Kind(To) \in FloatKinds
  THEN Ret(To, Kind(To), sintToFloat(Kind(To), From, from, impl), impl)
  ELSE IF TakesInt(To)
  THEN Ret(To, Kind(To), sintToInt(Kind(To), From, from, impl), impl)
  ELSE Conv(To, From, from, impl)

uintToInt(To, From, from, impl) ==
  IF TakesInt(To) /\ Kind(To) \in SintKinds
  THEN Ret(To, Kind(To), uintToSint(Kind(To), From, from, impl), impl)
  ELSE IF TakesInt(To)
  THEN Ret(To, Kind(To), uintToUint(Kind(To), From, from, impl), impl)
  ELSE Conv(To, From, from, impl)

fromUint(To, From, from, impl) ==
  IF Kind(To) \in FloatKinds
  THEN Ret(To, Kind(To), uintToFloat(Kind(To), From, from, impl), impl)
  ELSE IF TakesInt(To)
  THEN Ret(To, Kind(To), uintToInt(Kind(To), From, from, impl), impl)
  ELSE Conv(To, From, from, impl)

fromInt(To, From, from, impl) ==
  IF Kind(From) \in SintKinds
  THEN fromSint(To, WideKind(From), Wide(From, from, impl), impl)
  ELSE IF Kind(From) \in UintKinds
  THEN fromUint(To, WideKind(From), Wide(From, from, impl), impl)
  ELSE Conv(To, From, from, impl)

floatToInt(To, From, from, roundMode, impl) ==
  IF TakesInt(To) /\ Kind(To) \in SintKinds
  THEN Ret(To, Kind(To), floatToSint(Kind(To), From, from, roundMode, impl), impl)
  ELSE IF TakesInt(To)
  THEN Ret(To, Kind(To), floatToUint(Kind(To), From, from, roundMode, impl), impl)
  ELSE Conv(To, From, from, impl)

\* slip: the supplied policy is never looked at
fromFloatDefaultOnly(To, From, from, roundMode, impl) ==
  IF To \in IntKinds THEN floatToInt(To, From, from, "Round", impl)
  ELSE IF To \in FloatKinds THEN floatToFloat(To, From, from, impl)
  ELSE Conv(To, From, from, impl)

\* roundMode is the variadic list of policies; the reflect switch has no
\* case for the floating kinds
fromFloat(To, From, from, roundMode, impl) ==
  IF To \in FloatKinds THEN floatToFloat(To, From, from, impl)
  ELSE IF TakesInt(To)
  THEN Ret(To, Kind(To),
           floatToInt(Kind(To), From, from,
                      IF Len(roundMode) > 0 THEN roundMode[1] ELSE "Round",
                      impl), impl)
  ELSE Conv(To, From, from, impl)

fromNumber(To, From, from, roundMode, impl) ==
  IF Kind(From) \in IntKinds THEN fromInt(To, From, from, impl)
  ELSE IF Kind(From) \in FloatKinds
  THEN fromFloat(To, WideKind(From), Wide(From, from, impl), roundMode, impl)
  ELSE Conv(To, From, from, impl)

\* what the body of convertNumberBy stores in a[0], or Panic when a call in
\* it panicked before the store.  A built-in source goes to fromNumber with
\* the variadic list; a defined type goes through the same reflect switch as
\* fromNumber's, with the one policy `mode`.
primary(To, From, from, roundMode, impl) ==
  IF Kind(From) \in Kinds
  THEN fromNumber(To, From, from,
                  IF From \in Kinds THEN roundMode
                  ELSE <<IF Len(roundMode) > 0 THEN roundMode[1] ELSE "Round">>,
                  impl)
  ELSE Conv(To, From, from, impl)

\* the deferred function: a recovered panic stores the native conversion
recovered(To, From, from, impl) == Conv(To, From, from, impl)

\* slip: the deferred function does not recover
convertNumberByNoRecover(To, From, from, roundMode, impl) ==
  primary(To, From, from, roundMode, impl)

\* the value of a[0] when convertNumberBy is left
convertNumberBy(To, From, from, roundMode, impl) ==
  LET deferred(v) == IF v = Panic THEN recovered(To, From, from, impl) ELSE v
  IN  deferred(primary(To, From, from, roundMode, impl))

ConvertNumberBy(To, From, from, roundMode, impl) ==
  convertNumberBy(To, From, from, roundMode, impl)

ConvertNumber(To, From, f, impl) == ConvertNumberBy(To, From, f, <<>>, impl)

\* ------------------------------------- the later draft (RUNK.go 1108-)
\* The second `package RUNK` kept in the file converts without the chain of
\* leaf converters: the tests on the source come first, then the policy is
\* called and the same tests are made on its result.  z is the zero value
\* utils.ZeroOfType[To]() returns.  coerceNumberBy (1376-1444) repeats the
\* integer case of convertNumberBy (1283-1351) line by line.
draftBody(To, From, f, roundMode, impl) ==
  LET mode == IF Len(roundMode) > 0 THEN roundMode[1] ELSE "Round"
      z == Zero
      tests(ff, max, min) ==
        LET above(x) == Gt(x, Conv("float64", To, max, impl))
            below(x) == Lt(x, Conv("float64", To, min, impl))
            rounded(r) ==
              IF r = Panic THEN Panic
              ELSE IF IsNaN(r) THEN z
              ELSE IF IsInf(r, 1) THEN max
              ELSE IF above(r) THEN max
              ELSE IF IsInf(r, -1) THEN min
              ELSE IF below(r) THEN min
              ELSE Conv(To, "float64", r, impl)
        IN  IF IsNaN(ff) THEN z
            ELSE IF IsInf(ff, 1) THEN max
            ELSE IF above(ff) THEN max
            ELSE IF IsInf(ff, -1) THEN min
            ELSE IF below(ff) THEN min
            ELSE IF From \in FloatKinds THEN rounded(Apply(mode, ff))
            ELSE Conv(To, From, f, impl)
  IN  IF To \in IntKinds
      THEN tests(Conv("float64", From, f, impl), MaxNum(To), MinNum(To))
      ELSE Conv(To, From, f, impl)

\* CoerceNumber[From, To](f): CoerceNumberBy without a policy.  An integer
\* target returns from the first switch; a floating target hands To(f) to
\* utils.SwitchType, which no call made here reaches.
CoerceNumber(To, From, f, impl) == draftBody(To, From, f, <<>>, impl)

\* the value of a[0] when the draft's convertNumberBy is left: a recovered
\* panic stores CoerceNumber[From, To](f)
convertNumberByDraft(To, From, f, roundMode, impl) ==
  LET deferred(v) == IF v = Panic THEN CoerceNumber(To, From, f, impl) ELSE v
  IN  deferred(draftBody(To, From, f, roundMode, impl))

ConvertNumberByDraft(To, From, f, roundMode, impl) ==
  convertNumberByDraft(To, From, f, roundMode, impl)

\* ------------------------------------------------- reduction operators
RECURSIVE MaxFold(_, _)
MaxFold(max, nums) ==
  IF nums = <<>> THEN max
  ELSE MaxFold(IF Gt(Head(nums), max) THEN Head(nums) ELSE max, Tail(nums))

\* slip: the fold starts from the zero value of N
MaxSeedZero(N, nums) == MaxFold(Zero, nums)

Max(N, nums) == MaxFold(MinNum(N), nums)

RECURSIVE MinFold(_, _)
MinFold(min, nums) ==
  IF nums = <<>> THEN min
  ELSE MinFold(IF Lt(Head(nums), min) THEN Head(nums) ELSE min, Tail(nums))

\* slip: the fold starts from the zero value of N
MinSeedZero(N, nums) == MinFold(Zero, nums)

Min(N, nums) == MinFold(MaxNum(N), nums)

\* The definitions of Min the repository holds: the two drafts kept in
\* RUNK.go and the two programs kept in main.go.  Each declares `var min N`
\* with a seed and folds with `num < min`; the programs take the seed from
\* nums[0], which panics for an empty list.
MinDefs == {"RUNK.go 821", "RUNK.go 1573", "main.go 258", "main.go 380"}
MinSeed(def, N, nums) ==
  CASE def = "RUNK.go 821" -> MaxNum(N)
    [] def = "RUNK.go 1573" -> MaxNum(N)
    [] def = "main.go 258" -> IF nums = <<>> THEN Panic ELSE MaxNum(N)
    [] def = "main.go 380" -> IF nums = <<>> THEN Panic ELSE MinNum(N)
MinIn(def, N, nums) ==
  LET fold(min) == IF min = Panic THEN Panic ELSE MinFold(min, nums)
  IN  fold(MinSeed(def, N, nums))

\* -num in the type N: exact for floats, two's complement for integers
Negate(N, num) == IF N \in FloatKinds THEN Neg(num) ELSE Wrap(N, Neg(num))

\* slip: the negative branch returns its argument
AbsNoNegate(N, num) == IF Lt(num, Zero) THEN num ELSE num

Abs(N, num) == IF Lt(num, Zero) THEN Negate(N, num) ELSE num

\* ------------------------------------------------------ ConvertNum
\* The dynamic type of the `any` argument: a built-in or defined numeric
\* type, nil, bool (true is carried as 1, false as 0), or something else
\* (a string).  ext is what the generic converter of the utils module gives
\* back, about which this package knows nothing.
DynTypes == Types \cup {"nil", "bool", "string"}

\* the return statement ConvertNum leaves through
ConvertNumVia(dyn) ==
  IF dyn = "nil" THEN "literal"
  ELSE IF dyn = "uint" THEN "utils.Convert"
  ELSE IF dyn \in Kinds THEN "ConvertNumber"
  ELSE IF dyn = "bool" THEN "literal"
  ELSE IF Kind(dyn) \in Kinds THEN "ConvertNumber"
  ELSE "utils.Convert"

ConvertNum(To, dyn, f, impl, ext) ==
  IF dyn = "nil" THEN Conv(To, "int", Zero, impl)
  ELSE IF dyn = "uint" THEN ext
  ELSE IF dyn = "bool"
  THEN (IF f # Zero THEN Conv(To, "int", Num(0, 2), impl)
        ELSE Conv(To, "int", Zero, impl))
  ELSE IF dyn \in Types
  THEN \* v for a built-in type; k.Float(), k.Int(), k.Uint() for a defined one
       ConvertNumber(To, WideKind(dyn), Wide(dyn, f, impl), impl)
  ELSE ext

\* ---------------------------------------------------- function adapters
\* The adapters of one argument that return their own type N.
RoundingAdapters == {"Ceil", "Floor", "Round", "RoundToEven", "Trunc"}
Adapters ==
  {"Acos", "Acosh", "Asin", "Asinh", "Atan", "Atanh", "Cbrt", "Cos", "Cosh",
   "Erf", "Erfc", "Erfcinv", "Erfinv", "Exp", "Exp2", "Expm1", "Gamma",
   "Ilogb", "J0", "J1", "Log", "Log10", "Log1p", "Log2", "Logb", "Sin",
   "Sinh", "Sqrt", "Tan", "Tanh", "Y0", "Y1"} \cup RoundingAdapters

\* the function of package math an adapter's body calls
Binding(F) == IF F = "Ilogb" THEN "Gamma" ELSE F

\* the rounding policies an adapter's body hands to the engine
AdapterModes(F) == IF F \in RoundingAdapters THEN <<F>> ELSE <<>>

\* the type of what a function of package math returns
ResultKind(fn) == IF fn = "Ilogb" THEN "int" ELSE "float64"

\* Package math at the arguments where its result is exact and known: the
\* documented special cases and exact small values, as <<argument, result>>
I(n) == Num(0, 2 * n)
MathTable(fn) ==
  CASE fn \in {"Sin", "Tan", "Asin", "Atan", "Sinh", "Tanh", "Asinh",
               "Expm1", "Log1p", "Erf", "J1"} -> {<<I(0), I(0)>>}
    [] fn \in {"Cos", "Cosh", "Exp", "Erfc", "J0"} -> {<<I(0), I(1)>>}
    [] fn \in {"Acos", "Acosh"} -> {<<I(1), I(0)>>}
    [] fn = "Atanh" -> {<<I(0), I(0)>>, <<I(1), PosInf>>, <<I(-1), NegInf>>}
    [] fn = "Cbrt" -> {<<I(0), I(0)>>, <<PosInf, PosInf>>, <<NegInf, NegInf>>}
    [] fn = "Erfinv" -> {<<I(1), PosInf>>, <<I(-1), NegInf>>}
    [] fn = "Erfcinv" -> {<<I(0), PosInf>>, <<I(2), NegInf>>}
    [] fn = "Exp2" -> {<<I(0), I(1)>>, <<I(1), I(2)>>, <<I(2), I(4)>>}
    [] fn = "Gamma" -> {<<I(0), PosInf>>, <<I(1), I(1)>>, <<I(2), I(1)>>,
                        <<I(4), I(6)>>, <<I(-1), qNaN>>, <<PosInf, PosInf>>}
    [] fn = "Ilogb" -> {<<I(0), MinInt32>>, <<I(1), I(0)>>, <<I(2), I(1)>>,
                        <<I(4), I(2)>>, <<PosInf, MaxInt32>>}
    [] fn = "Logb" -> {<<I(0), NegInf>>, <<I(1), I(0)>>, <<I(2), I(1)>>,
                       <<I(4), I(2)>>, <<PosInf, PosInf>>}
    [] fn \in {"Log", "Log10"} -> {<<I(0), NegInf>>, <<I(1), I(0)>>,
                                   <<I(-1), qNaN>>, <<PosInf, PosInf>>}
    [] fn = "Log2" -> {<<I(0), NegInf>>, <<I(1), I(0)>>, <<I(2), I(1)>>,
                       <<I(4), I(2)>>, <<I(-1), qNaN>>}
    [] fn = "Sqrt" -> {<<I(0), I(0)>>, <<I(1), I(1)>>, <<I(4), I(2)>>,
                       <<I(-1), qNaN>>, <<PosInf, PosInf>>}
    [] fn \in {"Y0", "Y1"} -> {<<I(0), NegInf>>, <<I(-1), qNaN>>}

Known(fn, x) ==
  \/ fn \in RoundingAdapters
  \/ fn # "Ilogb" /\ IsNaN(x)
  \/ \E p \in MathTable(fn) : p[1] = x

MathFn(fn, x) ==
  IF fn \in RoundingAdapters THEN Apply(fn, x)
  ELSE IF fn # "Ilogb" /\ IsNaN(x) THEN qNaN
  ELSE (CHOOSE p \in MathTable(fn) : p[1] = x)[2]

\* slip: the argument is widened to float32
AdapterThroughFloat32(F, N, num, impl) ==
  ConvertNumberBy(N, ResultKind(Binding(F)),
                  MathFn(Binding(F), Conv("float32", N, num, impl)),
                  AdapterModes(F), impl)

\* F[N](num)
Adapter(F, N, num, impl) ==
  ConvertNumberBy(N, ResultKind(Binding(F)),
                  MathFn(Binding(F), Conv("float64", N, num, impl)),
                  AdapterModes(F), impl)

\* ----------------------------------------------------- sampled inputs
Grid == {Num(a, h) : a \in -RInf..RInf, h \in -MaxOff..MaxOff}
OnLine(x) == AbsInt(x.a) <= NExp \/ x.h = 0

\* the values of a Kind among the sampled points
Values(kind) ==
  IF kind \in IntKinds
  THEN {x \in Grid : OnLine(x) /\ IsInteger(x) /\ InKind(kind, x)}
  ELSE {x \in Grid : OnLine(x) /\ RoundToFloat(kind, x) = x} \cup {qNaN}

\* the small values the reductions are exercised on: -7, -5, 2, 3, 5, the
\* bounds of the Kind and, for floats, the infinities and NaN
Small == {Num(0, 2 * n) : n \in {-7, -5, 2, 3, 5}}
Sample(kind) ==
  IF kind \in IntKinds
  THEN {x \in Small \cup {KindMin(kind), KindMax(kind)} : InKind(kind, x)}
  ELSE Small \cup {MinNum(kind), MaxNum(kind), PosInf, NegInf, qNaN}
SeqSample(kind) ==
  IF kind \in IntKinds
  THEN {x \in {Num(0, -14), Num(0, 4), Num(0, 6), KindMin(kind), KindMax(kind)} :
          InKind(kind, x)}
  ELSE {Num(0, -14), Num(0, 4), Num(0, 6), MinNum(kind), MaxNum(kind),
        PosInf, NegInf, qNaN}
SeqsUpTo(S, n) == UNION {[1..k -> S] : k \in 0..n}

\* variadic rounding-policy lists: none, one, and two (the second is ignored)
ModeLists == {<<>>} \cup {<<m>> : m \in Modes}
               \cup {<<"RoundToEven", "Round">>, <<"Floor", "Huge">>}

\* a thinner sample for the calls on defined types and through ConvertNum:
\* every anchor, with the offsets 0, +-1 and (floats) +-2.5
Coarse(T) == {x \in Values(Kind(T)) : x.h \in {-5, -2, 0, 2, 5}}

\* the arguments an adapter is exercised on: those where package math is known
AdapterArgs(F, N) ==
  {v \in Values(N) \cup {x \in {I(4)} : N \in FloatKinds \/ InKind(N, x)} :
     /\ Known(Binding(F), Conv("float64", N, v, "zero"))
     /\ Known(F, Conv("float64", N, v, "zero"))}

\* ------------------------------------------- one call, statement by statement
\* The leaf converter a call of ConvertNumberBy ends in ("To(from)" is the
\* unchecked fallback), and the statements of that leaf in program order.
Class(kind) ==
  IF kind \in SintKinds THEN "Sint" ELSE IF kind \in UintKinds THEN "Uint"
  ELSE "Float"

\* slip: fromInt has no case for uintptr
LeafNoUintptr(To, From) ==
  LET f == Class(Kind(From))
      t == Class(Kind(To))
  IN  IF From = "uintptr" THEN "To(from)"
      ELSE IF To \notin Kinds /\ t = "Uint" /\ Kind(To) \notin UintCases
      THEN "To(from)"
      ELSE IF To \notin Kinds /\ f = "Float" /\ t = "Float" THEN "To(from)"
      ELSE CASE f = "Sint" /\ t = "Sint" -> "sintToSint"
             [] f = "Sint" /\ t = "Uint" -> "sintToUint"
             [] f = "Sint" /\ t = "Float" -> "sintToFloat"
             [] f = "Uint" /\ t = "Sint" -> "uintToSint"
             [] f = "Uint" /\ t = "Uint" -> "uintToUint"
             [] f = "Uint" /\ t = "Float" -> "uintToFloat"
             [] f = "Float" /\ t = "Sint" -> "floatToSint"
             [] f = "Float" /\ t = "Uint" -> "floatToUint"
             [] f = "Float" /\ t = "Float" -> "floatToFloat"

Leaf(To, From) ==
  LET f == Class(Kind(From))
      t == Class(Kind(To))
  IN  IF To \notin Kinds /\ t = "Uint" /\ Kind(To) \notin UintCases
      THEN "To(from)"
      ELSE IF To \notin Kinds /\ f = "Float" /\ t = "Float" THEN "To(from)"
      ELSE CASE f = "Sint" /\ t = "Sint" -> "sintToSint"
             [] f = "Sint" /\ t = "Uint" -> "sintToUint"
             [] f = "Sint" /\ t = "Float" -> "sintToFloat"
             [] f = "Uint" /\ t = "Sint" -> "uintToSint"
             [] f = "Uint" /\ t = "Uint" -> "uintToUint"
             [] f = "Uint" /\ t = "Float" -> "uintToFloat"
             [] f = "Float" /\ t = "Sint" -> "floatToSint"
             [] f = "Float" /\ t = "Uint" -> "floatToUint"
             [] f = "Float" /\ t = "Float" -> "floatToFloat"

\* slip: the policy is called after the tests
LeafBodyTestsFirst(leaf) ==
  CASE leaf \in {"floatToSint", "floatToUint"} -> <<"tests", "roundMode", "return">>
    [] leaf \in {"sintToSint", "sintToUint", "uintToSint", "uintToUint"} ->
         <<"tests", "return">>
    [] OTHER -> <<"return">>

LeafBody(leaf) ==
  CASE leaf \in {"floatToSint", "floatToUint"} -> <<"roundMode", "tests", "return">>
    [] leaf \in {"sintToSint", "sintToUint", "uintToSint", "uintToUint"} ->
         <<"tests", "return">>
    [] OTHER -> <<"return">>

\* the statements of the leaf one call executes: the body up to its return,
\* or up to the call of a policy that panics
RECURSIVE UpTo(_, _)
UpTo(body, stmt) ==
  IF body = <<>> THEN <<>>
  ELSE IF Head(body) = stmt THEN <<stmt>>
  ELSE <<Head(body)>> \o UpTo(Tail(body), stmt)

Executed(To, From, roundMode) ==
  LET mode == IF Len(roundMode) > 0 THEN roundMode[1] ELSE "Round"
      body == LeafBody(Leaf(To, From))
  IN  IF mode = "Panic" THEN UpTo(body, "roundMode") ELSE body

\* Several goroutines call ConvertNumberBy.  A call allocates its carrier
\* `a := &[1]To{zt}`, convertNumberBy stores into a[0], the call returns a[0].
Threads == 1..NThreads
Addrs == 1..NThreads

\* the calls the goroutines make
ThCalls ==
  {[To |-> t, From |-> f[1], from |-> f[2], modes |-> m, impl |-> i] :
     t \in {"int8", "float32"},
     f \in {<<"float64", qNaN>>, <<"float64", Num(0, 5)>>,
            <<"int16", Pow2(8)>>},
     m \in {<<>>, <<"Panic">>},
     i \in {"min"}}

NoCall == [To |-> "int", From |-> "int", from |-> Zero, modes |-> <<>>,
           impl |-> "zero"]
ThIdle == [pc |-> "idle", call |-> NoCall, addr |-> 0, todo |-> <<>>,
           log |-> <<>>, out |-> Zero]

\* slip: one package-level carrier instead of one per call
AllocShared(used) == CHOOSE a \in Addrs : \A c \in Addrs : a <= c

\* `&[1]To{zt}`: storage no live carrier occupies
Alloc(used) == CHOOSE a \in Addrs \ used : \A c \in Addrs \ used : a <= c

\* ----------------------------------------------------- the state machine
\* One caller at a time: pc, the operation op with its type arguments tk/fk,
\* its arguments, its result ret, the function it was served by (via) and
\* the statements of the leaf converter it executed (log).
\* Several callers at once: th (each goroutine's call) and heap (carriers).
VARIABLES pc, op, tk, fk, arg, nums, modes, ret, via, log, th, heap
seq == <<pc, op, tk, fk, arg, nums, modes, ret, via, log>>
conc == <<th, heap>>
vars == <<pc, op, tk, fk, arg, nums, modes, ret, via, log, th, heap>>

Idle ==
  /\ pc = "idle" /\ op = "none" /\ tk = "int" /\ fk = "int"
  /\ arg = Zero /\ nums = <<>> /\ modes = <<>> /\ ret = Zero
  /\ via = "none" /\ log = <<>>

Init ==
  /\ Idle
  /\ th = [t \in Threads |-> ThIdle]
  /\ heap = [a \in Addrs |-> Zero]

CallConvertNumberBy ==
  /\ pc = "idle"
  /\ \E From \in Kinds : \E v \in Values(From) :
       \E To \in Kinds, rm \in ModeLists, impl \in ImplsFor(From) :
         /\ op' = "ConvertNumberBy" /\ tk' = To /\ fk' = From
         /\ arg' = v /\ modes' = rm
         /\ ret' = ConvertNumberBy(To, From, v, rm, impl)
         /\ via' = Leaf(To, From) /\ log' = Executed(To, From, rm)
  /\ pc' = "done"
  /\ UNCHANGED <<nums, conc>>

\* the same call with a defined type as source or as target
CallConvertNamed ==
  /\ pc = "idle"
  /\ \E To \in Types, From \in Types, impl \in Impls :
       /\ (To \in NamedKinds) # (From \in NamedKinds)
       /\ \E v \in Coarse(From),
            rm \in {l \in {<<>>, <<"Floor">>} :
                      l = <<>> \/ Kind(From) \in FloatKinds} :
            /\ op' = "ConvertNumberBy" /\ tk' = To /\ fk' = From
            /\ arg' = v /\ modes' = rm
            /\ ret' = ConvertNumberBy(To, From, v, rm, impl)
            /\ via' = Leaf(To, From) /\ log' = Executed(To, From, rm)
  /\ pc' = "done"
  /\ UNCHANGED <<nums, conc>>

CallConvertNumber ==
  /\ pc = "idle"
  /\ \E From \in Kinds : \E v \in Values(From) :
       \E To \in Kinds, impl \in ImplsFor(From) :
         /\ op' = "ConvertNumber" /\ tk' = To /\ fk' = From /\ arg' = v
         /\ ret' = ConvertNumber(To, From, v, impl)
         /\ via' = Leaf(To, From) /\ log' = Executed(To, From, <<>>)
  /\ pc' = "done"
  /\ UNCHANGED <<nums, modes, conc>>

\* ConvertNumberBy of the later draft, on a floating source
CallConvertNumberByDraft ==
  /\ pc = "idle"
  /\ \E From \in FloatKinds : \E v \in Values(From) :
       \E To \in Kinds, rm \in ModeLists, impl \in Impls :
         /\ op' = "ConvertNumberByDraft" /\ tk' = To /\ fk' = From
         /\ arg' = v /\ modes' = rm
         /\ ret' = ConvertNumberByDraft(To, From, v, rm, impl)
  /\ pc' = "done"
  /\ UNCHANGED <<nums, via, log, conc>>

CallConvertNum ==
  /\ pc = "idle"
  /\ \E To \in Kinds, dyn \in DynTypes, impl \in Impls :
       \E f \in (IF dyn \in Types THEN Coarse(dyn)
                 ELSE IF dyn = "bool" THEN {Zero, I(1)} ELSE {Zero}),
          ext \in (IF ConvertNumVia(dyn) = "utils.Convert" THEN Sample(To)
                   ELSE {Zero}) :
         /\ op' = "ConvertNum" /\ tk' = To /\ fk' = dyn /\ arg' = f
         /\ ret' = ConvertNum(To, dyn, f, impl, ext)
         /\ via' = ConvertNumVia(dyn)
  /\ pc' = "done"
  /\ UNCHANGED <<nums, modes, log, conc>>

\* F[N](v) for an adapter F of one argument
CallAdapter ==
  /\ pc = "idle"
  /\ \E F \in Adapters, N \in Kinds, impl \in Impls :
       \E v \in AdapterArgs(F, N) :
         /\ op' = F /\ tk' = N /\ fk' = N /\ arg' = v
         /\ ret' = Adapter(F, N, v, impl)
         /\ via' = Binding(F)
  /\ pc' = "done"
  /\ UNCHANGED <<nums, modes, log, conc>>

CallMinNum ==
  /\ pc = "idle"
  /\ \E N \in Kinds : op' = "MinNum" /\ tk' = N /\ fk' = N /\ ret' = MinNum(N)
  /\ pc' = "done"
  /\ UNCHANGED <<arg, nums, modes, via, log, conc>>

CallMaxNum ==
  /\ pc = "idle"
  /\ \E N \in Kinds : op' = "MaxNum" /\ tk' = N /\ fk' = N /\ ret' = MaxNum(N)
  /\ pc' = "done"
  /\ UNCHANGED <<arg, nums, modes, via, log, conc>>

CallMax ==
  /\ pc = "idle"
  /\ \E N \in Kinds : \E s \in SeqsUpTo(SeqSample(N), MaxLen) :
       op' = "Max" /\ tk' = N /\ fk' = N /\ nums' = s /\ ret' = Max(N, s)
  /\ pc' = "done"
  /\ UNCHANGED <<arg, modes, via, log, conc>>

CallMin ==
  /\ pc = "idle"
  /\ \E N \in Kinds : \E s \in SeqsUpTo(SeqSample(N), MaxLen) :
       op' = "Min" /\ tk' = N /\ fk' = N /\ nums' = s /\ ret' = Min(N, s)
  /\ pc' = "done"
  /\ UNCHANGED <<arg, modes, via, log, conc>>

\* Min(nums...) as one of the definitions of the repository gives it
CallMinIn ==
  /\ pc = "idle"
  /\ \E def \in MinDefs, N \in Kinds :
       \E s \in SeqsUpTo(SeqSample(N), MaxLen) :
         /\ op' = "MinIn" /\ tk' = N /\ fk' = N /\ nums' = s
         /\ via' = def /\ ret' = MinIn(def, N, s)
  /\ pc' = "done"
  /\ UNCHANGED <<arg, modes, log, conc>>

CallAbs ==
  /\ pc = "idle"
  /\ \E N \in Kinds : \E v \in Values(N) \cup Sample(N) :
       op' = "Abs" /\ tk' = N /\ fk' = N /\ arg' = v /\ ret' = Abs(N, v)
  /\ pc' = "done"
  /\ UNCHANGED <<nums, modes, via, log, conc>>

\* ConvertNumber[A](ConvertNumber[B](v)) for v of Kind A (fk = A, tk = B)
CallRoundTrip ==
  /\ pc = "idle"
  /\ \E A \in Kinds : \E v \in Values(A) :
       \E B \in Kinds : \E i1 \in ImplsFor(A), i2 \in ImplsFor(B) :
         /\ op' = "RoundTrip" /\ fk' = A /\ tk' = B /\ arg' = v
         /\ ret' = ConvertNumber(A, B, ConvertNumber(B, A, v, i1), i2)
  /\ pc' = "done"
  /\ UNCHANGED <<nums, modes, via, log, conc>>

\* the caller converts the result once more to the same target with the
\* same policy: ConvertNumberBy[T](ConvertNumberBy[T](v, p), p); nums keeps
\* the result of the first call
CallAgain ==
  /\ pc = "done" /\ op = "ConvertNumberBy"
  /\ tk \in Kinds /\ fk \in Kinds
  /\ (IF Len(modes) > 0 THEN modes[1] ELSE "Round") \in MathModes
  /\ \E impl \in ImplsFor(tk) :
       /\ op' = "ConvertTwice" /\ nums' = <<ret>>
       /\ ret' = ConvertNumberBy(tk, tk, ret, modes, impl)
       /\ via' = Leaf(tk, tk) /\ log' = Executed(tk, tk, modes)
  /\ UNCHANGED <<pc, tk, fk, arg, modes, conc>>

\* the caller takes the result; the package keeps no state between calls
Return ==
  /\ pc = "done"
  /\ pc' = "idle" /\ op' = "none" /\ tk' = "int" /\ fk' = "int"
  /\ arg' = Zero /\ nums' = <<>> /\ modes' = <<>> /\ ret' = Zero
  /\ via' = "none" /\ log' = <<>>
  /\ UNCHANGED conc

Next ==
  \/ CallMinNum
  \/ CallMaxNum
  \/ CallMax
  \/ CallMin
  \/ CallMinIn
  \/ CallAbs
  \/ CallAdapter
  \/ CallConvertNumber
  \/ CallRoundTrip
  \/ CallConvertNumberBy
  \/ CallConvertNamed
  \/ CallConvertNum
  \/ CallConvertNumberByDraft
  \/ CallAgain
  \/ Return

Spec == Init /\ [][Next]_vars

\* ---------------------------------------------- several callers at once
\* the carriers live calls hold
Live == {th[t].addr : t \in Threads} \ {0}

\* ConvertNumberBy, lines 655-656: the carrier is allocated holding zt
Enter(t) ==
  /\ th[t].pc = "idle"
  /\ \E c \in ThCalls :
       LET a == Alloc(Live)
       IN  /\ th' = [th EXCEPT ![t] =
                       [pc |-> "body", call |-> c, addr |-> a,
                        todo |-> LeafBody(Leaf(c.To, c.From)),
                        log |-> <<>>, out |-> Zero]]
           /\ heap' = [heap EXCEPT ![a] = Zero]
  /\ UNCHANGED seq

\* convertNumberBy runs the next statement of the leaf; at the leaf's return
\* the result is stored into a[0]; a policy that panics starts the unwinding
Step(t) ==
  /\ th[t].pc = "body" /\ th[t].todo # <<>>
  /\ LET me == th[t]
         c == me.call
         stmt == Head(me.todo)
         mode == IF Len(c.modes) > 0 THEN c.modes[1] ELSE "Round"
     IN  IF stmt = "roundMode" /\ mode = "Panic"
         THEN /\ th' = [th EXCEPT ![t].pc = "panicking", ![t].todo = <<>>,
                                  ![t].log = Append(@, stmt)]
              /\ UNCHANGED heap
         ELSE IF stmt = "return"
         THEN /\ th' = [th EXCEPT ![t].pc = "stored", ![t].todo = <<>>,
                                  ![t].log = Append(@, stmt)]
              /\ heap' = [heap EXCEPT ![me.addr] =
                            primary(c.To, c.From, c.from, c.modes, c.impl)]
         ELSE /\ th' = [th EXCEPT ![t].todo = Tail(@),
                                  ![t].log = Append(@, stmt)]
              /\ UNCHANGED heap
  /\ UNCHANGED seq

\* the deferred function of convertNumberBy recovers and stores To(from)
Recover(t) ==
  /\ th[t].pc = "panicking"
  /\ LET c == th[t].call
     IN  heap' = [heap EXCEPT ![th[t].addr] =
                    recovered(c.To, c.From, c.from, c.impl)]
  /\ th' = [th EXCEPT ![t].pc = "stored"]
  /\ UNCHANGED seq

\* ConvertNumberBy, line 658: return a[0]
Leave(t) ==
  /\ th[t].pc = "stored"
  /\ th' = [th EXCEPT ![t].pc = "done", ![t].out = heap[th[t].addr]]
  /\ UNCHANGED <<heap, seq>>

\* the caller drops the result and the carrier is collected
Drop(t) ==
  /\ th[t].pc = "done"
  /\ th' = [th EXCEPT ![t] = ThIdle]
  /\ heap' = [heap EXCEPT ![th[t].addr] = Zero]
  /\ UNCHANGED seq

ConcNext ==
  \/ \E t \in Threads : Enter(t)
  \/ \E t \in Threads : Step(t)
  \/ \E t \in Threads : Recover(t)
  \/ \E t \in Threads : Leave(t)
  \/ \E t \in Threads : Drop(t)

ConcSpec == Init /\ [][ConcNext]_vars

TypeOK ==
  /\ pc \in {"idle", "done"}
  /\ tk \in Types /\ fk \in DynTypes
  /\ ret \in [a : -RInf..RInf, b : 0..NExp, h : Int, nan : BOOLEAN]


\* ------------------------------------------------------------ properties
Done(o) == pc = "done" /\ op = o
Converted == Done("ConvertNumber") \/ Done("ConvertNumberBy")
\* the policy a call is expected to use: the first one supplied, else Round
EffMode == IF Len(modes) > 0 THEN modes[1] ELSE "Round"
\* a floating source, an integer target and a policy that returns a value
FloatToInt == /\ Converted /\ fk \in FloatKinds /\ tk \in IntKinds
              /\ EffMode # "Panic"
Rounded == Apply(EffMode, arg)

\* C1: a floating source that is (or rounds to something) above maxOf(T) gives
\* exactly maxOf(T), one below minOf(T) gives exactly minOf(T), for every
\* integer target T, the 64-bit ones included (stated for the policies of the
\* math package, for which "above" and "below" exclude each other).
C1_SaturatesAtEveryWidth ==
  (FloatToInt /\ ~arg.nan /\ EffMode \in MathModes) =>
     /\ (Gt(arg, KindMax(tk)) \/ Gt(Rounded, KindMax(tk))) => ret = KindMax(tk)
     /\ (Lt(arg, KindMin(tk)) \/ Lt(Rounded, KindMin(tk))) => ret = KindMin(tk)

\* C2: integer -> integer conversion clamps to [minOf(T), maxOf(T)] and is
\* exact inside the range; it never wraps.
C2_IntToIntClamps ==
  (Converted /\ fk \in IntKinds /\ tk \in IntKinds) =>
     ret = (IF Gt(arg, KindMax(tk)) THEN KindMax(tk)
            ELSE IF Lt(arg, KindMin(tk)) THEN KindMin(tk) ELSE arg)
C2_Witness ==
  /\ Done("ConvertNumber") /\ fk = "int16" /\ tk = "uint8"
  /\ Lt(arg, Zero) /\ ret = Zero

\* C3: a NaN source converts to the integer 0 of every integer target,
\* whatever the rounding policy returns for NaN.
C3_NaNToZero == (FloatToInt /\ IsNaN(arg)) => ret = Zero
C3_Witness ==
  /\ Done("ConvertNumberBy") /\ IsNaN(arg) /\ modes = <<"Huge">>
  /\ tk \in UintKinds /\ ret = Zero

\* C4: +Inf converts to maxOf(T) and -Inf to minOf(T) for every integer
\* target T and every rounding policy that returns a value.
C4_InfSaturates ==
  FloatToInt =>
     /\ IsInf(arg, 1) => ret = KindMax(tk)
     /\ IsInf(arg, -1) => ret = KindMin(tk)

\* C5: without a policy float -> signed integer rounds half away from zero
\* (2.5 -> 3, -2.5 -> -3); with RoundToEven supplied 2.5 -> 2; in general the
\* first supplied policy is the one applied, Round only when none is given.
C5_DefaultAndSuppliedPolicy ==
  (FloatToInt /\ tk \in SintKinds) =>
     /\ (modes = <<>> /\ arg = Num(0, 5)) => ret = Num(0, 6)
     /\ (modes = <<>> /\ arg = Num(0, -5)) => ret = Num(0, -6)
     /\ (Len(modes) > 0 /\ modes[1] = "RoundToEven" /\ arg = Num(0, 5))
           => ret = Num(0, 4)
     /\ (IsFinite(arg) /\ InKind(tk, arg) /\ IsFinite(Rounded)
           /\ InKind(tk, Rounded)) => ret = Trunc(Rounded)
C5_Witness ==
  /\ Done("ConvertNumberBy") /\ tk = "int" /\ arg = Num(0, 5)
  /\ modes = <<"RoundToEven", "Round">> /\ ret = Num(0, 4)

\* C6: for every integer target, unsigned included, a finite source whose
\* value and rounded form are in range converts to policy(v) cast to T
\* (2.5 -> uint8 gives 3 by default).
C6_RoundedNotTruncated ==
  (FloatToInt /\ IsFinite(arg) /\ InKind(tk, arg) /\ IsFinite(Rounded)
     /\ InKind(tk, Rounded)) => ret = Trunc(Rounded)

\* C7 (as stated): for every pair (A, B) with A's range inside B's range and
\* every value v of A, converting to B and back gives v.
Within(A, B) == Leq(MinNum(B), MinNum(A)) /\ Leq(MaxNum(A), MaxNum(B))
C7_RoundTripAllWidening ==
  (Done("RoundTrip") /\ Within(fk, tk)) => Eq(ret, arg)

\* C7 (amended): the round trip is the identity for every non-NaN v when A's
\* range is inside B's and B represents every value of A exactly: integer B,
\* floating A, or an integer A whose magnitude bits fit B's significand
\* (8/16-bit through float32; 8/16/32-bit through float64).
MagBits(A) == IF A \in SintKinds THEN Width(A) - 1 ELSE Width(A)
Exact(A, B) == B \in IntKinds \/ A \in FloatKinds \/ MagBits(A) <= Mant(B)
C7_RoundTripExactWidening ==
  (Done("RoundTrip") /\ Within(fk, tk) /\ Exact(fk, tk) /\ ~arg.nan)
     => Eq(ret, arg)
C7_Witness ==
  /\ Done("RoundTrip") /\ fk = "int32" /\ tk = "float64"
  /\ arg = MaxInt32 /\ ret = MaxInt32

\* C8: MinNum / MaxNum are defined for all 13 built-in types and return the
\* natural bounds: -2^(w-1) and 2^(w-1)-1 for signed, 0 and 2^w-1 for
\* unsigned, -MaxFloat and +MaxFloat (finite) for floats; hence
\* MinNum <= 0 <= MaxNum and MinNum < MaxNum.
NaturalMax(K) ==
  IF K \in IntKinds THEN KindMax(K)
  ELSE Num(Mark(IF K = "float32" THEN "MaxFloat32" ELSE "MaxFloat64"), 0)
NaturalMin(K) == IF K \in IntKinds THEN KindMin(K) ELSE Neg(NaturalMax(K))
C8_NaturalBounds ==
  /\ Done("MinNum") =>
        /\ ret = NaturalMin(tk) /\ IsFinite(ret)
        /\ Leq(ret, Zero) /\ Lt(ret, MaxNum(tk))
  /\ Done("MaxNum") =>
        /\ ret = NaturalMax(tk) /\ IsFinite(ret)
        /\ Leq(Zero, ret) /\ Lt(MinNum(tk), ret)
C8_Witness == Done("MinNum") /\ tk = "int8" /\ ret = Num(-Rank(7), 0)

\* C9: Max and Min of a one-element list return that element, for every
\* Kind and value, the infinities of the floating Kinds included; and
\* Max(3, -7, 2) = 3, Min(3, -7, 2) = -7 as int32.
C9_SingletonAndTriple ==
  /\ ((Done("Max") \/ Done("Min")) /\ Len(nums) = 1 /\ ~nums[1].nan)
        => ret = nums[1]
  /\ (tk = "int32" /\ nums = <<Num(0, 6), Num(0, -14), Num(0, 4)>>) =>
        /\ Done("Max") => ret = Num(0, 6)
        /\ Done("Min") => ret = Num(0, -14)

\* C10: for a signed Kind Abs(v) = -v when v < 0 and v is not the minimum,
\* Abs(v) = v when v >= 0, Abs(minimum) = minimum (wraparound); Abs is
\* non-negative except at the minimum; for unsigned Kinds Abs is the identity.
C10_AbsWraps ==
  Done("Abs") =>
     /\ (tk \in SintKinds /\ Lt(arg, Zero) /\ arg # KindMin(tk))
           => ret = Neg(arg)
     /\ (tk \in SintKinds /\ Leq(Zero, arg)) => ret = arg
     /\ (tk \in SintKinds /\ arg = KindMin(tk)) => ret = KindMin(tk)
     /\ (tk \in SintKinds /\ arg # KindMin(tk)) => Leq(Zero, ret)
     /\ (tk = "int8" /\ arg = Num(0, -10)) => ret = Num(0, 10)
     /\ tk \in UintKinds => ret = arg
C10_Witness ==
  Done("Abs") /\ tk = "int8" /\ arg = Neg(Pow2(7)) /\ ret = Neg(Pow2(7))

\* C11: ConvertNumber and ConvertNumberBy return normally, with a value of
\* the target type, for every source value, every target and every rounding
\* policy, one that panics when called included.
IsValueOf(T, x) ==
  IF Kind(T) \in IntKinds THEN IsInteger(x) /\ InKind(Kind(T), x)
  ELSE RoundToFloat(Kind(T), x) = x
C11_AlwaysReturns == Converted => (ret # Panic /\ IsValueOf(tk, ret))
C11_Witness ==
  /\ Done("ConvertNumberBy") /\ modes = <<"Panic">> /\ fk = "float64"
  /\ tk = "int8" /\ arg = Num(0, 5) /\ log = <<"roundMode">> /\ ret = I(2)

\* C12: every adapter calls the function of package math it is named after
\* (Sin calls Sin, Gamma calls Gamma, Ilogb calls Ilogb, Logb calls Logb, ...).
C12_AdapterCallsNamesake == (pc = "done" /\ op \in Adapters) => via = op

\* C13: Sin(N(0)) = 0, Cos(N(0)) = 1 and Sqrt(N(4)) = 2 in every Kind N, and
\* for an integer Kind N every adapter F of one argument gives
\* ConvertNumber[N](F of package math applied to float64(x)).
C13_AdaptersReproduceProvider ==
  (pc = "done" /\ op \in Adapters) =>
     /\ (op = "Sin" /\ arg = I(0)) => ret = I(0)
     /\ (op = "Cos" /\ arg = I(0)) => ret = I(1)
     /\ (op = "Sqrt" /\ arg = I(4)) => ret = I(2)
     /\ tk \in IntKinds =>
          \E impl \in Impls :
             ret = ConvertNumber(tk, ResultKind(op),
                                 MathFn(op, Conv("float64", tk, arg, impl)), impl)

\* C14: ConvertNum[To](v) is ConvertNumber[To](v) for a v of each of the 13
\* built-in numeric types: every numeric case returns the engine's result.
C14_ConvertNumIsConvertNumber ==
  (Done("ConvertNum") /\ fk \in Kinds) =>
     /\ via = "ConvertNumber"
     /\ \E impl \in Impls : ret = ConvertNumber(tk, fk, arg, impl)

C16_NamedAsUnderlying ==
  (Converted /\ (tk \in NamedKinds \/ fk \in NamedKinds)) =>
     \E impl \in Impls :
        ret = ConvertNumberBy(Kind(tk), Kind(fk), arg, modes, impl)

\* C17: calls of ConvertNumberBy running at once do not interfere: a step of
\* one call writes no carrier another call holds, and every call returns
\* what it returns when it runs alone, whatever the interleaving.
Alone(c) == ConvertNumberBy(c.To, c.From, c.from, c.modes, c.impl)
WritesOwnCarrier ==
  \A a \in Addrs :
     heap'[a] # heap[a] =>
        \E t \in Threads :
           /\ th'[t] # th[t]
           /\ th[t].addr = a \/ th'[t].addr = a
           /\ \A u \in Threads \ {t} : th'[u] = th[u] /\ th[u].addr # a
C17_NoInterference ==
  /\ [](\A t \in Threads : th[t].pc = "done" => th[t].out = Alone(th[t].call))
  /\ [][WritesOwnCarrier]_vars
C17_Witness ==
  /\ th[1].pc = "done" /\ th[2].pc = "stored" /\ th[1].addr # th[2].addr
  /\ th[1].call.modes = <<"Panic">> /\ th[1].log = <<"roundMode">>
  /\ th[1].out # heap[th[2].addr]

Calls == Cardinality({i \in 1..Len(log) : log[i] = "roundMode"})
C19_PolicyOnceBeforeTests ==
  (Converted /\ tk \in Kinds /\ fk \in Kinds) =>
     IF fk \in FloatKinds /\ tk \in IntKinds
     THEN /\ Calls = 1 /\ log[1] = "roundMode"
          /\ (IsNaN(arg) /\ EffMode # "Panic") => ret = Zero
     ELSE Calls = 0
C19_Witness ==
  /\ Done("ConvertNumberBy") /\ fk = "float32" /\ tk = "uint16"
  /\ IsNaN(arg) /\ modes = <<"Huge">>
  /\ log = <<"roundMode", "tests", "return">> /\ ret = Zero

\* C20: for an integer Kind and a non-empty list, Max returns an element
\* that no element exceeds and Min an element that exceeds none, whatever the
\* order of the list.
RECURSIVE Reverse(_)
Reverse(s) == IF s = <<>> THEN <<>> ELSE Append(Reverse(Tail(s)), Head(s))
Elements(s) == {s[i] : i \in 1..Len(s)}
C20_MaxMinOfIntegers ==
  (tk \in IntKinds /\ nums # <<>>) =>
     /\ Done("Max") => /\ ret \in Elements(nums)
                       /\ \A e \in Elements(nums) : Leq(e, ret)
                       /\ ret = Max(tk, Reverse(nums))
     /\ Done("Min") => /\ ret \in Elements(nums)
                       /\ \A e \in Elements(nums) : Leq(ret, e)
                       /\ ret = Min(tk, Reverse(nums))
C20_Witness ==
  /\ Done("Max") /\ tk = "int64" /\ nums = <<MinInt64, I(-7), MinInt64>>
  /\ ret = I(-7)

\* C21: every definition of Min in the repository (two in RUNK.go, two in
\* main.go) starts its fold from the maximum of the Kind and so returns the
\* smallest element of a non-empty list of integers: Min(3, -7, 2) = -7 and
\* Min(5) = 5 under each of them.
C21_EveryMinReturnsSmallest ==
  (Done("MinIn") /\ tk \in IntKinds /\ nums # <<>>) =>
     /\ MinSeed(via, tk, nums) = KindMax(tk)
     /\ ret \in Elements(nums)
     /\ \A e \in Elements(nums) : Leq(ret, e)
     /\ nums = <<I(3), I(-7), I(2)>> => ret = I(-7)
     /\ Len(nums) = 1 => ret = nums[1]

\* C24: Max and Min of RUNK.go take an empty list without panicking, Max()
\* is MinNum[N] and Min() is MaxNum[N] for every Kind N, and for an integer
\* Kind the Max (Min) of a list is the Max (Min) of the Max (Min) of its two
\* parts, however the list is cut, an empty part included.
Cut(s, k) == <<SubSeq(s, 1, k), SubSeq(s, k + 1, Len(s))>>
C24_EmptyListIsIdentity ==
  /\ Done("Max") =>
        /\ ret # Panic
        /\ nums = <<>> => ret = MinNum(tk)
        /\ tk \in IntKinds =>
             \A k \in 0..Len(nums) :
                ret = Max(tk, <<Max(tk, Cut(nums, k)[1]), Max(tk, Cut(nums, k)[2])>>)
  /\ Done("Min") =>
        /\ ret # Panic
        /\ nums = <<>> => ret = MaxNum(tk)
        /\ tk \in IntKinds =>
             \A k \in 0..Len(nums) :
                ret = Min(tk, <<Min(tk, Cut(nums, k)[1]), Min(tk, Cut(nums, k)[2])>>)
C24_Witness ==
  /\ Done("Min") /\ tk = "uint16" /\ nums = <<>> /\ ret = MaxUint16

\* C22: for a source and a target among the 13 built-in types and a policy
\* that does not panic, ConvertNumberBy reaches no trailing `return To(from)`
\* of a dispatcher, not the trailing `a[0] = To(from)` and not the recover
\* branch: the call runs a leaf converter to its return and the result is
\* the value of that leaf.
LeafNames == {"sintToSint", "sintToUint", "sintToFloat", "uintToSint",
              "uintToUint", "uintToFloat", "floatToSint", "floatToUint",
              "floatToFloat"}
RunLeaf(leaf, To, From, from, mode, impl) ==
  CASE leaf = "sintToSint" -> sintToSint(To, From, from, impl)
    [] leaf = "sintToUint" -> sintToUint(To, From, from, impl)
    [] leaf = "sintToFloat" -> sintToFloat(To, From, from, impl)
    [] leaf = "uintToSint" -> uintToSint(To, From, from, impl)
    [] leaf = "uintToUint" -> uintToUint(To, From, from, impl)
    [] leaf = "uintToFloat" -> uintToFloat(To, From, from, impl)
    [] leaf = "floatToSint" -> floatToSint(To, From, from, mode, impl)
    [] leaf = "floatToUint" -> floatToUint(To, From, from, mode, impl)
    [] leaf = "floatToFloat" -> floatToFloat(To, From, from, impl)
C22_NoFallbackForBuiltIns ==
  (Converted /\ tk \in Kinds /\ fk \in Kinds /\ EffMode # "Panic") =>
     /\ via \in LeafNames
     /\ log # <<>> /\ log[Len(log)] = "return"
     /\ \E impl \in Impls :
          /\ primary(tk, fk, arg, modes, impl) # Panic
          /\ ret = RunLeaf(via, tk, fk, arg, EffMode, impl)
C22_Witness ==
  /\ Done("ConvertNumberBy") /\ fk = "uintptr" /\ tk = "int8"
  /\ modes = <<"ToNaN">> /\ arg = MaxUint64
  /\ via = "uintToSint" /\ log = <<"tests", "return">> /\ ret = MaxInt8

\* C23: when the primary path of ConvertNumberBy panics (the supplied policy
\* panics), the value returned for an integer target T is still 0 for a NaN
\* source, maxOf(T) for +Inf or a source above maxOf(T), and minOf(T) for
\* -Inf or a source below minOf(T).
C23_RecoveredPathSaturates ==
  (Converted /\ fk \in FloatKinds /\ tk \in IntKinds /\ EffMode = "Panic") =>
     /\ IsNaN(arg) => ret = Zero
     /\ (IsInf(arg, 1) \/ Gt(arg, KindMax(tk))) => ret = KindMax(tk)
     /\ (IsInf(arg, -1) \/ Lt(arg, KindMin(tk))) => ret = KindMin(tk)

\* C25 (as stated): for built-in Kinds S and T, every value v of S and every
\* policy p that maps integers to themselves,
\* ConvertNumberBy[T](ConvertNumberBy[T](v, p), p) == ConvertNumberBy[T](v, p).
C25_TwiceEqualsOnce == Done("ConvertTwice") => Eq(ret, nums[1])

\* C25 (amended): converting the result again gives the same value whenever
\* the first result is not NaN, and NaN again when it is (a NaN compares
\* unequal to itself).
C25_TwiceIsOnceOrNaN ==
  Done("ConvertTwice") =>
     IF IsNaN(nums[1]) THEN IsNaN(ret) /\ fk \in FloatKinds /\ tk \in FloatKinds
     ELSE Eq(ret, nums[1])
C25_Witness ==
  /\ Done("ConvertTwice") /\ fk = "float64" /\ tk = "int8"
  /\ modes = <<"Floor">> /\ arg = Num(0, 5) /\ nums = <<I(2)>> /\ ret = I(2)

\* C26: conversion to an integer Kind T is monotone on every build: for
\* values v1 <= v2 of a built-in integer Kind, and for non-NaN values
\* v1 <= v2 of a floating Kind under the default policy,
\* ConvertNumber[T](v1) <= ConvertNumber[T](v2).
C26_Monotone ==
  (Done("ConvertNumber") /\ tk \in IntKinds /\ ~IsNaN(arg)) =>
     \A impl \in Impls :
        ret = ConvertNumber(tk, fk, arg, impl) =>
           \A v2 \in Values(fk) :
              (~IsNaN(v2) /\ Leq(arg, v2)) =>
                 Leq(ret, ConvertNumber(tk, fk, v2, impl))

\* C27 (as stated): for every integer Kind N, the 64-bit and native-width
\* ones included, and every value v of N, Round(v) = Floor(v) = Ceil(v) =
\* Trunc(v) = RoundToEven(v) = v.
C27_RoundingIsIdentityOnIntegers ==
  (pc = "done" /\ op \in RoundingAdapters /\ tk \in IntKinds) => ret = arg

\* C27 (amended): the rounding adapters return v for every integer v that
\* float64 holds exactly: every value of the 8-, 16- and 32-bit Kinds, and
\* the values of the 64-bit and native-width Kinds with at most 53
\* significant bits.
C27_RoundingIsIdentityWhenExact ==
  (pc = "done" /\ op \in RoundingAdapters /\ tk \in IntKinds) =>
     /\ MagBits(tk) <= Mant("float64") => RoundToFloat("float64", arg) = arg
     /\ RoundToFloat("float64", arg) = arg => ret = arg
C27_Witness ==
  /\ pc = "done" /\ op = "RoundToEven" /\ tk = "int64"
  /\ arg = Plus(Pow2(53), -1) /\ via = "RoundToEven" /\ ret = arg

\* C28: the two implementations of ConvertNumberBy kept in RUNK.go return
\* the same result, on every build, for every floating source value, every
\* integer target Kind and every rounding policy, one that returns NaN or an
\* out-of-range value for an in-range source included.
C28_DraftsAgree ==
  (Done("ConvertNumberByDraft") /\ tk \in IntKinds) =>
     \A impl \in Impls :
        ret = ConvertNumberByDraft(tk, fk, arg, modes, impl) =>
           ret = ConvertNumberBy(tk, fk, arg, modes, impl)

\* C29: ConvertNum[To](nil) = 0, ConvertNum[To](true) = 1 and
\* ConvertNum[To](false) = 0 for every target Kind, and the generic converter
\* of the utils module is reached only for an argument whose dynamic type is
\* neither nil, bool, a built-in numeric type nor a defined numeric type.
C29_TotalOnHandledCases ==
  Done("ConvertNum") =>
     /\ fk = "nil" => ret = Zero
     /\ fk = "bool" => ret = (IF arg # Zero THEN I(1) ELSE Zero)
     /\ via = "utils.Convert" => fk \notin Types \cup {"nil", "bool"}

====
